---- MODULE Spec2Model ----
(***************************************************************************)
(* Chunked audio analysis of voice-sense-hardware (src/main.py):           *)
(* analyze_audio_with_hume and _analyze_single_audio, with the Hume        *)
(* streaming API as a nondeterministic collaborator.                       *)
(*                                                                         *)
(* Units.  Durations and window bounds are integer milliseconds, as in the *)
(* code.  Prediction times are seconds (floats) in the code; the model     *)
(* keeps them as integer milliseconds, so that `t + start_ms / 1000.0` is  *)
(* `t + start_ms` here (float rounding is not modelled).  Scores are       *)
(* integer percents.  A Python None (or an absent dict key) is the empty   *)
(* tuple None, a present value v is the one-element tuple Some(v).         *)
(***************************************************************************)
EXTENDS Integers, Sequences, FiniteSets, TLC

(***************************************************************************)
(* Program constants                                                       *)
(***************************************************************************)
MAX_CHUNK_MS == 4500

HUME_LIMIT_MS == 5000

(***************************************************************************)
(* Bounds of the model                                                     *)
(***************************************************************************)
\* longest audio, in ms, handed to analyze_audio_with_hume
MaxDurationMs == 13501

\* most predictions the collaborator returns for one file
MaxPreds == 2

(***************************************************************************)
(* Values                                                                  *)
(***************************************************************************)
None == << >>

Some(v) == << v >>

Min(a, b) == IF a <= b THEN a ELSE b

\* len(audio) of the WAV files handed to the analysis: the boundary cases of
\* the 5000 ms limit and of the 4500 ms window, and the longest audio.
\* len(audio) is 0 for a WAV of fewer than sample_rate/2000 frames, which
\* /audio accepts (it rejects only an empty body).
Durations ==
    { d \in {0, 1, 4500, 5000, 5001, 9000, 9001, 12000, 13500} : d <= MaxDurationMs }
        \cup {MaxDurationMs}

\* Predictions as the collaborator reports them: a time interval (absent, or
\* begin/end in ms) and an emotion list in the collaborator's own order.
RawPredictions ==
    { [begin |-> Some(0), end |-> Some(200),
       emotions |-> << [name |-> "Joy", score |-> 20],
                       [name |-> "Anger", score |-> 70] >>],
      [begin |-> Some(100), end |-> Some(200),
       emotions |-> << [name |-> "Anger", score |-> 90] >>],
      [begin |-> None, end |-> None,
       emotions |-> << [name |-> "Calmness", score |-> 40],
                       [name |-> "Joy", score |-> 40],
                       [name |-> "Fear", score |-> 10],
                       [name |-> "Anger", score |-> 55] >>] }

\* The collaborator's prediction lists: up to MaxPreds distinct predictions,
\* in any order (also none at all).
RawPredictionLists ==
    UNION { { s \in [1..n -> RawPredictions] :
                \A a, b \in 1..n : a # b => s[a] # s[b] } : n \in 0..MaxPreds }

Response(kind, text, warning, predictions) ==
    [kind |-> kind, text |-> text, warning |-> warning, predictions |-> predictions]

\* What one use of the streaming socket can produce:
\*   "raise"     connect() or send_file() raises; text is str(e), which is
\*               empty for an exception built without arguments
\*   "error"     the result carries an `error` attribute
\*   "noprosody" the result is falsy or has no prosody
\*   "prosody"   result.prosody with predictions and an optional warning
Responses ==
    { Response("raise", m, None, << >>) : m \in {"", "connection closed"} }
        \cup { Response("error", "payload too large", None, << >>) }
        \cup { Response("noprosody", "", None, << >>) }
        \cup { Response("prosody", "", None, ps) : ps \in RawPredictionLists }
        \cup { Response("prosody", "", Some("No speech detected."), << >>) }

(***************************************************************************)
(* _analyze_single_audio                                                   *)
(***************************************************************************)
\* sorted(prediction.emotions, key=lambda e: e.score, reverse=True): a
\* stable sort, so equal scores keep the collaborator's order.
RECURSIVE InsertByScore(_, _)
InsertByScore(e, sorted) ==
    IF sorted = << >> THEN << e >>
    ELSE IF Head(sorted).score >= e.score
         THEN << Head(sorted) >> \o InsertByScore(e, Tail(sorted))
         ELSE << e >> \o sorted

\* a variant of SortedEmotions: the collaborator's order is kept
SortedEmotions_Unsorted(emotions) == emotions

RECURSIVE SortedEmotions(_)
SortedEmotions(emotions) ==
    IF emotions = << >> THEN << >>
    ELSE LET front == SubSeq(emotions, 1, Len(emotions) - 1)
         IN  InsertByScore(emotions[Len(emotions)], SortedEmotions(front))

\* pred_data of one collaborator prediction
PredData(prediction) ==
    LET sorted_emotions == SortedEmotions(prediction.emotions)
    IN  [time |-> [begin |-> prediction.begin, end |-> prediction.end],
         emotions |-> sorted_emotions,
         top_3_emotions |-> SubSeq(sorted_emotions, 1, Min(3, Len(sorted_emotions))),
         chunk_index |-> None]

\* The result dicts.  Every dict of the code is a record with the same
\* fields here; a key the code leaves out is None.
ResultDict(success, error, predictions, warning, num_chunks, chunked) ==
    [success |-> success, error |-> error, predictions |-> predictions,
     total_predictions |-> IF success THEN Some(Len(predictions)) ELSE None,
     warning |-> warning, num_chunks |-> num_chunks, chunked |-> chunked]

\* the dict of an `except Exception as e` handler
ExceptionResult(msg) ==
    ResultDict(FALSE, Some(msg), << >>, None, None, FALSE)

\* the dict returned for a prosody result without predictions
NoSpeechResult(warning_msg) ==
    LET error_msg == IF warning_msg # None
                     THEN "No speech detected in audio" \o " (Hume: " \o warning_msg[1] \o ")"
                     ELSE "No speech detected in audio"
    IN  ResultDict(FALSE, Some(error_msg), << >>, warning_msg, None, FALSE)

\* the dict returned when the result carries an error
HumeErrorResult(error) ==
    ResultDict(FALSE, Some("Hume API error: " \o error), << >>, None, None, FALSE)

\* the dict returned when the result has no prosody
NoProsodyResult ==
    ResultDict(FALSE, Some("No prosody predictions returned from Hume API"),
               << >>, None, None, FALSE)

\* the dict returned for a non-empty prediction list
SingleSuccessResult(prosody_preds) ==
    ResultDict(TRUE, None,
               [k \in 1..Len(prosody_preds) |-> PredData(prosody_preds[k])],
               None, None, FALSE)

\* _analyze_single_audio on one response of the collaborator
AnalyzeSingle(resp) ==
    CASE resp.kind = "raise"     -> ExceptionResult(resp.text)
      [] resp.kind = "error"     -> HumeErrorResult(resp.text)
      [] resp.kind = "noprosody" -> NoProsodyResult
      [] resp.kind = "prosody"   ->
            IF resp.predictions = << >>
            THEN NoSpeechResult(resp.warning)
            ELSE SingleSuccessResult(resp.predictions)

(***************************************************************************)
(* analyze_audio_with_hume: the pure parts                                 *)
(***************************************************************************)
\* a variant of WithinLimit: the window size taken for the limit
WithinLimit_ChunkSize(duration) == duration <= MAX_CHUNK_MS

\* `if duration_ms <= 5000`
WithinLimit(duration) == duration <= HUME_LIMIT_MS

\* num_chunks, by ceiling division
NumChunks(duration) == (duration + MAX_CHUNK_MS - 1) \div MAX_CHUNK_MS

\* a variant of NextIndex: a failed window is tried again
NextIndex_Retry(index, chunk_result) ==
    IF chunk_result.success THEN index + MAX_CHUNK_MS ELSE index

\* the loop variable of the next iteration, whatever chunk_result was
NextIndex(index, chunk_result) == index + MAX_CHUNK_MS

\* a variant of LoopContinues: the stop value is included
LoopContinues_Inclusive(index, duration) == index <= duration

\* `for i in range(0, duration_ms, MAX_CHUNK_MS)`: the loop goes on while
LoopContinues(index, duration) == index < duration

\* a variant of WindowEnd: the last window is not truncated
WindowEnd_Untruncated(index, duration) == index + MAX_CHUNK_MS

\* end_ms of the window that starts at index
WindowEnd(index, duration) == Min(index + MAX_CHUNK_MS, duration)

\* i // MAX_CHUNK_MS
ChunkIndex(index) == index \div MAX_CHUNK_MS

\* Python truth value of a time: None and 0.0 are false
Truthy(t) == t # None /\ t # Some(0)

\* `t + (start_ms / 1000.0) if t else None`
AdjustTime(t, start) == IF Truthy(t) THEN Some(t[1] + start) ELSE None

\* the loop body over chunk_result['predictions']
AdjustPrediction(pred, start, index) ==
    [pred EXCEPT !.time = [begin |-> AdjustTime(pred.time.begin, start),
                           end |-> AdjustTime(pred.time.end, start)],
                 !.chunk_index = Some(ChunkIndex(index))]

AdjustedPredictions(predictions, start, index) ==
    [k \in 1..Len(predictions) |-> AdjustPrediction(predictions[k], start, index)]

\* a variant of Accumulate: a failed window discards what was accumulated
Accumulate_Resets(data, chunk_result, start, index) ==
    IF chunk_result.success
    THEN data \o AdjustedPredictions(chunk_result.predictions, start, index)
    ELSE << >>

\* a variant of Accumulate: new predictions are put in front
Accumulate_Prepends(data, chunk_result, start, index) ==
    IF chunk_result.success
    THEN AdjustedPredictions(chunk_result.predictions, start, index) \o data
    ELSE data

\* chunks_data after the iteration that got chunk_result for the window at index
Accumulate(data, chunk_result, start, index) ==
    IF chunk_result.success
    THEN data \o AdjustedPredictions(chunk_result.predictions, start, index)
    ELSE data

\* a variant of CombineResult: the emptiness test is left out
CombineResult_AlwaysSuccess(data, duration) ==
    ResultDict(TRUE, None, data, None, Some(NumChunks(duration)), TRUE)

\* a variant of CombineResult: fewer predictions than chunks counts as a
\* failure that still carries the predictions
CombineResult_PartialIsFailure(data, duration) ==
    IF Len(data) >= NumChunks(duration)
    THEN ResultDict(TRUE, None, data, None, Some(NumChunks(duration)), TRUE)
    ELSE ResultDict(FALSE, Some("All chunks failed to analyze"), data, None,
                    Some(NumChunks(duration)), FALSE)

\* "Combine results from all chunks"
CombineResult(data, duration) ==
    IF data # << >>
    THEN ResultDict(TRUE, None, data, None, Some(NumChunks(duration)), TRUE)
    ELSE ResultDict(FALSE, Some("All chunks failed to analyze"), << >>, None,
                    Some(NumChunks(duration)), FALSE)

\* the file handed to _analyze_single_audio: the original WAV, or chunk file k
OriginalFile == [chunk |-> FALSE, index |-> 0]

ChunkFile(k) == [chunk |-> TRUE, index |-> k]

\* the `finally` block: every file of chunk_files is unlinked
CleanUp(on_disk, files) == on_disk \ { files[k] : k \in 1..Len(files) }

(***************************************************************************)
(* check_emotion_triggers                                                  *)
(*                                                                         *)
(* emotion_filters is None, or Some(f) for a dict f from emotion names to  *)
(* thresholds (integer percents, like the scores).                         *)
(***************************************************************************)
\* a variant of NoFilters: only None counts as no filters
NoFilters_NoneOnly(filters) == filters = None

\* `not emotion_filters`: true of None and of the empty dict
NoFilters(filters) == filters = None \/ DOMAIN filters[1] = {}

\* a variant of InFilters: the score is compared with the threshold
InFilters_Threshold(emotion, filters) ==
    /\ emotion.name \in DOMAIN filters[1]
    /\ emotion.score >= filters[1][emotion.name]

\* `emotion_name in emotion_filters`
InFilters(emotion, filters) == emotion.name \in DOMAIN filters[1]

\* whether the inner loop appends the emotion
IsTriggered(emotion, filters) ==
    IF NoFilters(filters) THEN TRUE ELSE InFilters(emotion, filters)

\* the dict appended for an emotion of a prediction
TriggeredEmotion(emotion, prediction) ==
    [name |-> emotion.name, score |-> emotion.score, time |-> prediction.time]

\* what the inner loop appends for one prediction
TriggeredOfPrediction(prediction, filters) ==
    LET kept == SelectSeq(prediction.emotions, LAMBDA e : IsTriggered(e, filters))
    IN  [k \in 1..Len(kept) |-> TriggeredEmotion(kept[k], prediction)]

\* a variant of TriggeredEmotions: each prediction's matches are put in front
RECURSIVE TriggeredEmotions_Prepends(_, _)
TriggeredEmotions_Prepends(preds, filters) ==
    IF preds = << >> THEN << >>
    ELSE TriggeredOfPrediction(preds[Len(preds)], filters)
            \o TriggeredEmotions_Prepends(SubSeq(preds, 1, Len(preds) - 1), filters)

\* triggered_emotions after the outer loop
RECURSIVE TriggeredEmotions(_, _)
TriggeredEmotions(preds, filters) ==
    IF preds = << >> THEN << >>
    ELSE TriggeredEmotions(SubSeq(preds, 1, Len(preds) - 1), filters)
            \o TriggeredOfPrediction(preds[Len(preds)], filters)

\* the returned dict
CheckEmotionTriggers(preds, filters) ==
    LET triggered_emotions == TriggeredEmotions(preds, filters)
    IN  [triggered |-> Len(triggered_emotions) > 0,
         emotions |-> triggered_emotions,
         total_triggers |-> Len(triggered_emotions)]

\* The prediction lists given to check_emotion_triggers: what
\* _analyze_single_audio makes of the collaborator's lists.
TriggerPredictionLists ==
    { [k \in 1..Len(ps) |-> PredData(ps[k])] : ps \in RawPredictionLists }

\* The filters given to it: none, the empty dict, and dicts whose thresholds
\* lie above, at and below the scores of RawPredictions.
TriggerFilters ==
    { None, Some(<< >>),
      Some("Anger" :> 90), Some("Anger" :> 80), Some("Joy" :> 20),
      Some("Sadness" :> 60), Some(("Anger" :> 70) @@ ("Sadness" :> 60)),
      Some(("Fear" :> 50) @@ ("Calmness" :> 0)) }

(***************************************************************************)
(* One call of analyze_audio_with_hume(wav_file_path)                      *)
(***************************************************************************)
VARIABLES
    hume_api_key,   \* whether HUME_API_KEY is set
    duration_ms,    \* len(audio) of the WAV file
    pc,             \* where the call is: "idle" (not entered), "direct" and
                    \* "chunk" (awaiting _analyze_single_audio), "loop" (at
                    \* the head of the chunk loop), "done" (returned),
                    \* "raised" (left by an exception)
    i,              \* the loop variable
    chunks_data,    \* the accumulated predictions
    chunk_files,    \* the chunk files created so far
    disk,           \* the chunk files that exist
    calls,          \* history: the calls of _analyze_single_audio, in order
    rets,           \* history: what each completed call returned
    returned_by,    \* history: the return statement taken
    result          \* the returned dict

analyzeVars == << hume_api_key, duration_ms, pc, i, chunks_data, chunk_files, disk,
                  calls, rets, returned_by, result >>

\* One evaluation of check_emotion_triggers(predictions, emotion_filters)
VARIABLES
    trigger_predictions,    \* the predictions argument
    emotion_filters,        \* the emotion_filters argument
    trigger_result          \* None, or Some(the returned dict)

triggerVars == << trigger_predictions, emotion_filters, trigger_result >>

\* The server: the module-level state and the POST /audio requests
VARIABLES
    audio_stats,        \* the audio_stats dict
    EMOTION_CONFIG,     \* the configuration loaded at startup
    omi_configured,     \* whether OMI_APP_ID and OMI_API_KEY are both set
    requests,           \* the /audio requests received so far, in order:
                        \* where each one is and what it has got
    audio_files,        \* the requests whose file exists in audio_files/
    analysis_calls,     \* history: the requests that called analyze_audio_with_hume
    notification_calls  \* history: the posts to the notification API

serverVars == << audio_stats, EMOTION_CONFIG, omi_configured, requests,
                 audio_files, analysis_calls, notification_calls >>

\* analyze_audio_with_hume called twice on one file, the collaborator
\* answering the same call the same way
VARIABLES
    stub,           \* the collaborator's answers so far: call |-> response
    run,            \* 1 during the first call, 2 during the second
    first_result    \* what the first call returned

twiceVars == << stub, run, first_result >>

\* The background tasks created by startup_event, and the passing of time
VARIABLES
    file_age,       \* seconds since it was written, for each file of
                    \* audio_files/ that has seen time pass
    memory_task,    \* where emotion_memory_background_task is
    cleanup_task,   \* where cleanup_old_audio_files is
    failures_left   \* how many more times the file system fails the cleanup

backgroundVars == << file_age, memory_task, cleanup_task, failures_left >>

\* One /audio request with its query parameters kept
VARIABLES
    query           \* the query parameters of the request

queryVars == << query >>

\* send_notification called on its own
VARIABLES
    posts,          \* the notifications posted to the API and not yet answered
    send_result     \* None, or Some(success of the last send_notification)

sendVars == << posts, send_result >>

\* POST /emotion-config
VARIABLES
    config_file,    \* what emotion_config.json holds, None if it is not there
    config_response \* None, or Some(the last body with the status it got)

configVars == << config_file, config_response >>

\* POST /reset-stats
VARIABLES
    resets          \* how many /reset-stats calls have been answered

resetVars == << resets >>

\* save_emotion_memory for one user, in two histories: the user's own
\* requests only (audio_stats), and the same with other users' requests
\* among them
VARIABLES
    key_order,          \* the keys of emotion_counts in the order they were added
    audio_stats_mixed,  \* audio_stats in the history with other users
    key_order_mixed,    \* the order of the keys in that history
    stored,             \* the memory posted for the user, None before
    stored_mixed        \* the memory posted for the user in that history

summaryVars == << key_order, audio_stats_mixed, key_order_mixed, stored, stored_mixed >>

\* the variables of the later sections
laterVars == << backgroundVars, queryVars, sendVars, configVars, resetVars,
               summaryVars >>

\* the variables the background tasks do not touch, the server's apart
nonBackgroundVars == << analyzeVars, triggerVars, twiceVars, queryVars, sendVars,
                       configVars, resetVars, summaryVars >>

\* the variables analyze_audio_with_hume does not touch
otherVars == << triggerVars, serverVars, twiceVars, laterVars >>

\* the variables check_emotion_triggers does not touch
nonTriggerVars == << analyzeVars, serverVars, twiceVars, laterVars >>

\* the variables handle_audio_stream does not touch
nonServerVars == << analyzeVars, triggerVars, twiceVars, laterVars >>

\* the variables a second call of analyze_audio_with_hume does not touch
nonTwiceVars == << triggerVars, serverVars, laterVars >>

vars == << analyzeVars, otherVars >>

\* no evaluation of check_emotion_triggers is under way
TriggerIdle ==
    /\ trigger_predictions = << >>
    /\ emotion_filters = None
    /\ trigger_result = None

\* audio_stats as the module creates it (last_request_time is a clock
\* reading and is left out)
InitialStats ==
    [total_requests |-> 0, successful_analyses |-> 0, failed_analyses |-> 0,
     last_uid |-> None, recent_emotions |-> << >>, emotion_counts |-> << >>,
     recent_notifications |-> << >>]

\* default_config of load_emotion_config
DefaultConfig == [notification_enabled |-> TRUE, emotion_thresholds |-> << >>]

\* the server has not started
ServerIdle ==
    /\ audio_stats = InitialStats
    /\ EMOTION_CONFIG = DefaultConfig
    /\ omi_configured = FALSE
    /\ requests = << >>
    /\ audio_files = {}
    /\ analysis_calls = {}
    /\ notification_calls = << >>

\* a single call of analyze_audio_with_hume, no answer fixed in advance
TwiceIdle ==
    /\ stub = << >>
    /\ run = 1
    /\ first_result = None

\* the background tasks are not running and no time passes
BackgroundIdle ==
    /\ file_age = << >>
    /\ memory_task = "off"
    /\ cleanup_task = "off"
    /\ failures_left = 0

\* no request's query parameters are kept
QueryIdle == query = None

\* nothing of the sections after the single request is under way
RestIdle ==
    /\ posts = {} /\ send_result = None
    /\ config_file = None /\ config_response = None
    /\ resets = 0
    /\ key_order = << >> /\ audio_stats_mixed = None /\ key_order_mixed = << >>
    /\ stored = None /\ stored_mixed = None

LaterIdle == BackgroundIdle /\ QueryIdle /\ RestIdle

OthersIdle == TriggerIdle /\ ServerIdle /\ TwiceIdle /\ LaterIdle

\* str(e) of what AudioSegment.from_wav or chunk.export can raise
FileErrors == {"", "No such file or directory"}

Call(file, start, end) == [file |-> file, start_ms |-> start, end_ms |-> end]

\* analyze_audio_with_hume has not been entered
AnalyzeInit ==
    /\ hume_api_key \in BOOLEAN
    /\ duration_ms \in Durations
    /\ pc = "idle"
    /\ i = 0
    /\ chunks_data = << >>
    /\ chunk_files = << >>
    /\ disk = {}
    /\ calls = << >>
    /\ rets = << >>
    /\ returned_by = "none"
    /\ result = None

Init == AnalyzeInit /\ OthersIdle

\* HUME_API_KEY is not set: ValueError leaves the function
RaiseNoKey ==
    /\ pc = "idle"
    /\ ~hume_api_key
    /\ pc' = "raised"
    /\ UNCHANGED << hume_api_key, duration_ms, i, chunks_data, chunk_files, disk,
                    calls, rets, returned_by, result >>
    /\ UNCHANGED otherVars

\* AudioSegment.from_wav raises: the outer handler returns
LoadFails ==
    /\ pc = "idle"
    /\ hume_api_key
    /\ \E msg \in FileErrors : result' = ExceptionResult(msg)
    /\ returned_by' = "except"
    /\ pc' = "done"
    /\ UNCHANGED << hume_api_key, duration_ms, i, chunks_data, chunk_files, disk,
                    calls, rets >>
    /\ UNCHANGED otherVars

\* the audio is within the limit: _analyze_single_audio(wav_file_path) is awaited
DirectCall ==
    /\ pc = "idle"
    /\ hume_api_key
    /\ WithinLimit(duration_ms)
    /\ calls' = Append(calls, Call(OriginalFile, 0, duration_ms))
    /\ pc' = "direct"
    /\ UNCHANGED << hume_api_key, duration_ms, i, chunks_data, chunk_files, disk,
                    rets, returned_by, result >>
    /\ UNCHANGED otherVars

\* the direct call returns, the socket having produced resp, and its dict
\* is returned
DirectReturned(resp) ==
    /\ pc = "direct"
    /\ rets' = Append(rets, AnalyzeSingle(resp))
    /\ result' = AnalyzeSingle(resp)
    /\ returned_by' = "direct"
    /\ pc' = "done"
    /\ UNCHANGED << hume_api_key, duration_ms, i, chunks_data, chunk_files, disk,
                    calls >>

DirectReturn ==
    /\ \E resp \in Responses : DirectReturned(resp)
    /\ UNCHANGED otherVars

\* a variant of BeginChunking: the accumulator is not emptied
BeginChunking_KeepsAccumulator ==
    /\ pc = "idle"
    /\ hume_api_key
    /\ ~WithinLimit(duration_ms)
    /\ i' = 0
    /\ chunk_files' = << >>
    /\ pc' = "loop"
    /\ UNCHANGED << hume_api_key, duration_ms, chunks_data, disk, calls, rets,
                    returned_by, result >>
    /\ UNCHANGED otherVars

\* the audio is too long: the chunk loop is entered
BeginChunking ==
    /\ pc = "idle"
    /\ hume_api_key
    /\ ~WithinLimit(duration_ms)
    /\ i' = 0
    /\ chunks_data' = << >>
    /\ chunk_files' = << >>
    /\ pc' = "loop"
    /\ UNCHANGED << hume_api_key, duration_ms, disk, calls, rets, returned_by, result >>
    /\ UNCHANGED otherVars

\* a variant of ExportChunk: the chunk's analysis is started as a task and
\* the loop goes on to the next window without awaiting it
ExportChunk_NoAwait ==
    /\ pc = "loop"
    /\ LoopContinues(i, duration_ms)
    /\ LET start_ms == i
           end_ms == WindowEnd(i, duration_ms)
           chunk_path == ChunkFile(ChunkIndex(i))
       IN  /\ disk' = disk \cup {chunk_path}
           /\ chunk_files' = Append(chunk_files, chunk_path)
           /\ calls' = Append(calls, Call(chunk_path, start_ms, end_ms))
    /\ i' = i + MAX_CHUNK_MS
    /\ pc' = "loop"
    /\ UNCHANGED << hume_api_key, duration_ms, chunks_data, rets, returned_by, result >>
    /\ UNCHANGED otherVars

\* one iteration up to its await: the window is cut, exported to its chunk
\* file, and _analyze_single_audio(chunk_path) is awaited
ExportChunk ==
    /\ pc = "loop"
    /\ LoopContinues(i, duration_ms)
    /\ LET start_ms == i
           end_ms == WindowEnd(i, duration_ms)
           chunk_path == ChunkFile(ChunkIndex(i))
       IN  /\ disk' = disk \cup {chunk_path}
           /\ chunk_files' = Append(chunk_files, chunk_path)
           /\ calls' = Append(calls, Call(chunk_path, start_ms, end_ms))
    /\ pc' = "chunk"
    /\ UNCHANGED << hume_api_key, duration_ms, i, chunks_data, rets, returned_by, result >>
    /\ UNCHANGED otherVars

\* chunk.export raises (the file may have been created already): the finally
\* block runs and the outer handler returns
ExportFails ==
    /\ pc = "loop"
    /\ LoopContinues(i, duration_ms)
    /\ \E created \in BOOLEAN :
          disk' = CleanUp(IF created THEN disk \cup {ChunkFile(ChunkIndex(i))} ELSE disk,
                          chunk_files)
    /\ \E msg \in FileErrors : result' = ExceptionResult(msg)
    /\ returned_by' = "except"
    /\ pc' = "done"
    /\ UNCHANGED << hume_api_key, duration_ms, i, chunks_data, chunk_files, calls, rets >>
    /\ UNCHANGED otherVars

\* the rest of the iteration: the chunk's call returns, its predictions are
\* adjusted and accumulated, and the loop variable advances
ChunkReturned(resp) ==
    /\ pc = "chunk"
    /\ LET chunk_result == AnalyzeSingle(resp)
       IN  /\ rets' = Append(rets, chunk_result)
           /\ chunks_data' = Accumulate(chunks_data, chunk_result, i, i)
           /\ i' = NextIndex(i, chunk_result)
    /\ pc' = "loop"
    /\ UNCHANGED << hume_api_key, duration_ms, chunk_files, disk, calls,
                    returned_by, result >>

ChunkReturn ==
    /\ \E resp \in Responses : ChunkReturned(resp)
    /\ UNCHANGED otherVars

\* the loop is over: the combined dict is returned and the finally block runs
Combine ==
    /\ pc = "loop"
    /\ ~LoopContinues(i, duration_ms)
    /\ result' = CombineResult(chunks_data, duration_ms)
    /\ disk' = CleanUp(disk, chunk_files)
    /\ returned_by' = "combine"
    /\ pc' = "done"
    /\ UNCHANGED << hume_api_key, duration_ms, i, chunks_data, chunk_files, calls, rets >>
    /\ UNCHANGED otherVars

Next ==
    \/ RaiseNoKey
    \/ LoadFails
    \/ DirectCall
    \/ DirectReturn
    \/ BeginChunking
    \/ ExportChunk
    \/ ExportFails
    \/ ChunkReturn
    \/ Combine

Spec == Init /\ [][Next]_vars

(***************************************************************************)
(* check_emotion_triggers on its own: the arguments are drawn, the         *)
(* function is applied once.                                               *)
(***************************************************************************)
\* the analysis is not part of this specification
AnalyzeOff ==
    /\ AnalyzeInit
    /\ hume_api_key
    /\ duration_ms = 0

TriggerInit ==
    /\ AnalyzeOff
    /\ ServerIdle
    /\ TwiceIdle
    /\ LaterIdle
    /\ trigger_predictions \in TriggerPredictionLists
    /\ emotion_filters \in TriggerFilters
    /\ trigger_result = None

\* check_emotion_triggers(predictions, emotion_filters) returns
EvaluateTriggers ==
    /\ trigger_result = None
    /\ trigger_result' = Some(CheckEmotionTriggers(trigger_predictions, emotion_filters))
    /\ UNCHANGED << trigger_predictions, emotion_filters >>
    /\ UNCHANGED nonTriggerVars

TriggerNext == EvaluateTriggers

SpecTrigger == TriggerInit /\ [][TriggerNext]_vars

(***************************************************************************)
(* POST /audio: handle_audio_stream, with send_notification                *)
(*                                                                         *)
(* A request runs in steps that end where the handler awaits something     *)
(* that suspends it: the body, the analysis, the notification API.  The    *)
(* event loop runs one request at a time between those points.  The        *)
(* analysis is taken by what it returns.  File names carry a clock reading *)
(* and are taken as distinct; the upload to GCS changes nothing here and   *)
(* its failures are swallowed, so it is left out.                          *)
(***************************************************************************)
\* how many /audio requests are received
MaxRequests == 2

\* recent_notifications[:10]
MAX_NOTIFICATIONS == 10

Uids == {"u1", "u2"}

\* what load_emotion_config can have loaded
Configs ==
    { DefaultConfig,
      [notification_enabled |-> FALSE, emotion_thresholds |-> "Joy" :> 50] }

\* what analyze_audio_with_hume can return to the handler
AnalysisOutcomes ==
    { AnalyzeSingle(Response("raise", "connection closed", None, << >>)) }
        \cup { AnalyzeSingle(Response("prosody", "", None, << p >>)) :
                    p \in { q \in RawPredictions : q.begin # None } }

\* the enable_notification query parameter: absent, true or false
NotificationParams == {None, Some(TRUE), Some(FALSE)}

\* the emotion_filters query parameter: absent or a string
FilterParams == {None, Some("{\"Anger\": 0.9}"), Some("0.5"), Some("not json")}

\* json.loads(text) on the strings of FilterParams
JsonLoads(text) ==
    CASE text = "{\"Anger\": 0.9}" -> [kind |-> "dict", dict |-> "Anger" :> 90]
      [] text = "0.5" -> [kind |-> "float", dict |-> << >>]
      [] OTHER -> [kind |-> "JSONDecodeError", dict |-> << >>]

\* a variant of FiltersDict: a parameter that does not parse gives no filters
FiltersDict_NoneOnError(filters_param, config) ==
    LET configured == [kind |-> "dict", dict |-> config.emotion_thresholds]
    IN  IF filters_param # None
        THEN LET parsed == JsonLoads(filters_param[1])
             IN  IF parsed.kind = "JSONDecodeError"
                 THEN [kind |-> "dict", dict |-> << >>]
                 ELSE parsed
        ELSE configured

\* filters_dict: the parameter if it is a string that parses, else
\* the configured emotion_thresholds
FiltersDict(filters_param, config) ==
    LET configured == [kind |-> "dict", dict |-> config.emotion_thresholds]
    IN  IF filters_param # None
        THEN LET parsed == JsonLoads(filters_param[1])
             IN  IF parsed.kind = "JSONDecodeError" THEN configured ELSE parsed
        ELSE configured

\* `emotion_name in emotion_filters` raises TypeError on a number
TriggerRaises(predictions, filters_dict) ==
    /\ filters_dict.kind = "float"
    /\ \E k \in 1..Len(predictions) : predictions[k].emotions # << >>

\* a variant of ShouldNotify: the parameter is not looked at
ShouldNotify_ConfigOnly(enable_notification, config) == config.notification_enabled

\* enable_notification if it is given, else the configured default
ShouldNotify(enable_notification, config) ==
    IF enable_notification # None THEN enable_notification[1]
    ELSE config.notification_enabled

Digit == << "0", "1", "2", "3", "4", "5", "6", "7", "8", "9" >>

\* f"{score:.2f}" of a score given in hundredths
FormatScore(score) ==
    IF score >= 100 THEN "1.00"
    ELSE "0." \o Digit[(score \div 10) + 1] \o Digit[(score % 10) + 1]

\* the strings stored in recent_emotions
RecentEmotions(top_3) ==
    [k \in 1..Len(top_3) |-> top_3[k].name \o " (" \o FormatScore(top_3[k].score) \o ")"]

\* a variant of FirstTop3: the loop does not break, the last prediction
\* that has any top_3_emotions is the one kept
RECURSIVE FirstTop3_Last(_)
FirstTop3_Last(predictions) ==
    IF predictions = << >> THEN << >>
    ELSE IF FirstTop3_Last(Tail(predictions)) # << >>
         THEN FirstTop3_Last(Tail(predictions))
         ELSE Head(predictions).top_3_emotions

\* top_3_emotions of the first prediction that has any (the loop breaks there)
RECURSIVE FirstTop3(_)
FirstTop3(predictions) ==
    IF predictions = << >> THEN << >>
    ELSE IF Head(predictions).top_3_emotions # << >>
         THEN Head(predictions).top_3_emotions
         ELSE FirstTop3(Tail(predictions))

\* emotion_counts[name] += 1 for each of the top three, from 0 if absent
RECURSIVE CountEmotions(_, _)
CountEmotions(counts, top_3) ==
    IF top_3 = << >> THEN counts
    ELSE LET name == Head(top_3).name
             counted == IF name \in DOMAIN counts
                        THEN [counts EXCEPT ![name] = @ + 1]
                        ELSE counts @@ (name :> 1)
         IN  CountEmotions(counted, Tail(top_3))

\* a variant of CountAnalysis: a failed analysis is not counted
CountAnalysis_SuccessOnly(stats, hume_results) ==
    IF hume_results.success
    THEN [stats EXCEPT !.successful_analyses = @ + 1]
    ELSE stats

\* the statistics after an analysis has returned hume_results
CountAnalysis(stats, hume_results) ==
    IF hume_results.success
    THEN LET top_3 == FirstTop3(hume_results.predictions)
         IN  [stats EXCEPT !.successful_analyses = @ + 1,
                           !.emotion_counts = CountEmotions(@, top_3),
                           !.recent_emotions = IF top_3 # << >>
                                               THEN RecentEmotions(top_3) ELSE @]
    ELSE [stats EXCEPT !.failed_analyses = @ + 1]

RECURSIVE Join(_)
Join(names) ==
    IF names = << >> THEN ""
    ELSE IF Len(names) = 1 THEN Head(names)
    ELSE Head(names) \o ", " \o Join(Tail(names))

\* notification_msg, without its leading pictograph
NotificationMessage(matched) ==
    "Emotion Alert: "
        \o Join([k \in 1..Min(3, Len(matched)) |-> matched[k].name])

\* a variant of Remember: the entry is put last
Remember_Appends(recent, entry) ==
    SubSeq(recent \o << entry >>, 1, Min(MAX_NOTIFICATIONS, Len(recent) + 1))

\* insert(0, ...) and the truncation to the last ten
Remember(recent, entry) ==
    SubSeq(<< entry >> \o recent, 1, Min(MAX_NOTIFICATIONS, Len(recent) + 1))

\* a request just received; status 0 stands for no answer yet
NewRequest(uid) ==
    [pc |-> "body", uid |-> uid, audio_data |-> None, status |-> 0,
     hume_results |-> None, notification_sent |-> None]

\* what `await request.body()` gives: no bytes, or PCM samples
EmptyData == ""
SomeData == "pcm"

Answered(request, status) == [request EXCEPT !.pc = "done", !.status = status]

RequestIds == 1..Len(requests)

ServerInit ==
    /\ AnalyzeInit
    /\ duration_ms = 0
    /\ TriggerIdle
    /\ TwiceIdle
    /\ LaterIdle
    /\ audio_stats = InitialStats
    /\ EMOTION_CONFIG \in Configs
    /\ omi_configured \in BOOLEAN
    /\ requests = << >>
    /\ audio_files = {}
    /\ analysis_calls = {}
    /\ notification_calls = << >>

\* the handler is entered: lines 868-871, up to `await request.body()`
ReceiveFrom(uid) ==
    /\ Len(requests) < MaxRequests
    /\ requests' = Append(requests, NewRequest(uid))
    /\ audio_stats' = [audio_stats EXCEPT !.total_requests = @ + 1,
                                          !.last_uid = Some(uid)]
    /\ UNCHANGED << EMOTION_CONFIG, omi_configured, audio_files,
                    analysis_calls, notification_calls >>
    /\ UNCHANGED nonServerVars

\* a variant of EmptyBody: the empty body is stored and answered like any other
EmptyBody_Accepted(r) ==
    /\ requests[r].pc = "body"
    /\ audio_files' = audio_files \cup {r}
    /\ requests' = [requests EXCEPT ![r] =
                       Answered([@ EXCEPT !.audio_data = Some(EmptyData)], 200)]
    /\ UNCHANGED << audio_stats, EMOTION_CONFIG, omi_configured,
                    analysis_calls, notification_calls >>
    /\ UNCHANGED nonServerVars

\* the body is empty: HTTPException 400, passed on by the outer handler
EmptyBody(r) ==
    /\ requests[r].pc = "body"
    /\ requests' = [requests EXCEPT ![r] =
                       Answered([@ EXCEPT !.audio_data = Some(EmptyData)], 400)]
    /\ UNCHANGED << audio_stats, EMOTION_CONFIG, omi_configured, audio_files,
                    analysis_calls, notification_calls >>
    /\ UNCHANGED nonServerVars

\* analyze_emotion is false: the file is written and the request answered
SkipAnalysis(r) ==
    /\ requests[r].pc = "body"
    /\ audio_files' = audio_files \cup {r}
    /\ requests' = [requests EXCEPT ![r] =
                       Answered([@ EXCEPT !.audio_data = Some(SomeData)], 200)]
    /\ UNCHANGED << audio_stats, EMOTION_CONFIG, omi_configured,
                    analysis_calls, notification_calls >>
    /\ UNCHANGED nonServerVars

\* HUME_API_KEY is not set: analyze_audio_with_hume raises ValueError, the
\* file just written is unlinked and the request answered with 500
AnalysisRaises(r) ==
    /\ requests[r].pc = "body"
    /\ ~hume_api_key
    /\ analysis_calls' = analysis_calls \cup {r}
    /\ audio_files' = audio_files \ {r}
    /\ requests' = [requests EXCEPT ![r] =
                       Answered([@ EXCEPT !.audio_data = Some(SomeData)], 500)]
    /\ UNCHANGED << audio_stats, EMOTION_CONFIG, omi_configured, notification_calls >>
    /\ UNCHANGED nonServerVars

\* the file is written and the analysis awaited
StartAnalysis(r) ==
    /\ requests[r].pc = "body"
    /\ hume_api_key
    /\ audio_files' = audio_files \cup {r}
    /\ analysis_calls' = analysis_calls \cup {r}
    /\ requests' = [requests EXCEPT ![r].pc = "analysing",
                                     ![r].audio_data = Some(SomeData)]
    /\ UNCHANGED << audio_stats, EMOTION_CONFIG, omi_configured, notification_calls >>
    /\ UNCHANGED nonServerVars

\* the analysis returns hume_results: lines 903-980, up to the post of
\* send_notification or to the answer
AnalysisReturned(r, hume_results, enable_notification, filters_param) ==
    /\ requests[r].pc = "analysing"
    /\ LET filters_dict == FiltersDict(filters_param, EMOTION_CONFIG)
           checked == /\ hume_results.success
                      /\ ShouldNotify(enable_notification, EMOTION_CONFIG)
                      /\ hume_results.predictions # << >>
           raises == checked /\ TriggerRaises(hume_results.predictions, filters_dict)
           trigger == CheckEmotionTriggers(hume_results.predictions,
                                           Some(filters_dict.dict))
           triggered == checked /\ ~raises /\ trigger.triggered
           got == [requests[r] EXCEPT !.hume_results = Some(hume_results)]
       IN  /\ audio_stats' = CountAnalysis(audio_stats, hume_results)
           /\ IF raises
              THEN \* TypeError: the file is unlinked, the answer is 500
                   /\ requests' = [requests EXCEPT ![r] = Answered(got, 500)]
                   /\ audio_files' = audio_files \ {r}
                   /\ UNCHANGED notification_calls
              ELSE IF triggered /\ omi_configured
              THEN \* send_notification posts and awaits the answer
                   /\ requests' = [requests EXCEPT ![r] =
                                      [got EXCEPT !.pc = "notifying"]]
                   /\ notification_calls' =
                          Append(notification_calls,
                                 [request |-> r, uid |-> requests[r].uid,
                                  message |-> NotificationMessage(trigger.emotions)])
                   /\ UNCHANGED audio_files
              ELSE \* no notification, or send_notification returns at once
                   /\ requests' = [requests EXCEPT ![r] =
                          Answered([got EXCEPT !.notification_sent =
                                       IF checked THEN Some(FALSE) ELSE None], 200)]
                   /\ UNCHANGED << audio_files, notification_calls >>
    /\ UNCHANGED << EMOTION_CONFIG, omi_configured, analysis_calls >>
    /\ UNCHANGED nonServerVars

\* whatever the analysis returns and the query parameters are
AnalysisReturns(r) ==
    \E hume_results \in AnalysisOutcomes,
       enable_notification \in NotificationParams,
       filters_param \in FilterParams :
       AnalysisReturned(r, hume_results, enable_notification, filters_param)

\* the notification API answers (2xx or not, or the post raises): the rest
\* of send_notification and of the handler
NotifyReturns(r) ==
    /\ requests[r].pc = "notifying"
    /\ \E ok \in BOOLEAN :
          /\ audio_stats' =
                IF ok
                THEN [audio_stats EXCEPT !.recent_notifications =
                         Remember(@, [uid |-> requests[r].uid,
                                      message |-> notification_calls[
                                          CHOOSE k \in 1..Len(notification_calls) :
                                              notification_calls[k].request = r].message])]
                ELSE audio_stats
          /\ requests' = [requests EXCEPT ![r] =
                             Answered([@ EXCEPT !.notification_sent = Some(ok)], 200)]
    /\ UNCHANGED << EMOTION_CONFIG, omi_configured, audio_files,
                    analysis_calls, notification_calls >>
    /\ UNCHANGED nonServerVars

Receive == \E uid \in Uids : ReceiveFrom(uid)

ServerNext ==
    \/ Receive
    \/ \E r \in RequestIds : EmptyBody(r)
    \/ \E r \in RequestIds : SkipAnalysis(r)
    \/ \E r \in RequestIds : AnalysisRaises(r)
    \/ \E r \in RequestIds : StartAnalysis(r)
    \/ \E r \in RequestIds : AnalysisReturns(r)
    \/ \E r \in RequestIds : NotifyReturns(r)

SpecServer == ServerInit /\ [][ServerNext]_vars

(***************************************************************************)
(* analyze_audio_with_hume twice on the same file.  The collaborator is a  *)
(* stub: it answers a call it has seen as it answered it before.  The file *)
(* system does not fail here.                                              *)
(***************************************************************************)
\* the audio of at most three windows
TwiceDurations == { d \in Durations : d <= 2 * MAX_CHUNK_MS + 1 }

\* what the stub can answer to a call
StubAnswers(call) == IF call \in DOMAIN stub THEN {stub[call]} ELSE Responses

\* the call being awaited
PendingCall == calls[Len(calls)]

TwiceInit ==
    /\ AnalyzeInit
    /\ hume_api_key
    /\ duration_ms \in TwiceDurations
    /\ TriggerIdle
    /\ ServerIdle
    /\ TwiceIdle
    /\ LaterIdle

StubDirectReturn ==
    /\ pc = "direct"
    /\ \E resp \in StubAnswers(PendingCall) :
          /\ DirectReturned(resp)
          /\ stub' = (PendingCall :> resp) @@ stub
    /\ UNCHANGED << run, first_result >>
    /\ UNCHANGED nonTwiceVars

StubChunkReturn ==
    /\ pc = "chunk"
    /\ \E resp \in StubAnswers(PendingCall) :
          /\ ChunkReturned(resp)
          /\ stub' = (PendingCall :> resp) @@ stub
    /\ UNCHANGED << run, first_result >>
    /\ UNCHANGED nonTwiceVars

\* the first call has returned; the function is called again on the same
\* file.  The locals of the first call are gone: what is left in them here
\* is not read before the second call assigns them.
CallAgain ==
    /\ pc = "done"
    /\ run = 1
    /\ first_result' = Some(result)
    /\ run' = 2
    /\ pc' = "idle"
    /\ calls' = << >>
    /\ rets' = << >>
    /\ returned_by' = "none"
    /\ result' = None
    /\ UNCHANGED << hume_api_key, duration_ms, i, chunks_data, chunk_files, disk, stub >>
    /\ UNCHANGED nonTwiceVars

TwiceNext ==
    \/ DirectCall
    \/ StubDirectReturn
    \/ BeginChunking
    \/ ExportChunk
    \/ StubChunkReturn
    \/ Combine
    \/ CallAgain

SpecTwice == TwiceInit /\ [][TwiceNext]_vars

(***************************************************************************)
(* The background tasks: emotion_memory_background_task and                *)
(* cleanup_old_audio_files, beside /audio requests that do not reach the   *)
(* collaborator (empty body, analyze_emotion false, HUME_API_KEY not set), *)
(* all of one user.                                                        *)
(* Time passes in steps of one cleanup interval, and the cleanup runs when *)
(* its sleep is over.  The hourly task's sleep is not timed.  An iteration *)
(* that raises is in its `except` block ("handling") before it loops.      *)
(***************************************************************************)
\* asyncio.sleep(60) of the cleanup task
CLEANUP_INTERVAL_S == 60

\* `if file_age > 300`
MAX_FILE_AGE_S == 300

\* how many times the file system fails the cleanup task
MaxFailures == 1

\* seconds since the file of request f was written
Age(f) == IF f \in DOMAIN file_age THEN file_age[f] ELSE 0

\* ages are counted up to the first value past the limit
Older(age) == Min(age + CLEANUP_INTERVAL_S, MAX_FILE_AGE_S + CLEANUP_INTERVAL_S)

\* a variant of Old: a file of exactly 300 seconds is deleted too
Old_Inclusive(f) == Age(f) >= MAX_FILE_AGE_S

\* `file_age > 300`
Old(f) == Age(f) > MAX_FILE_AGE_S

\* startup_event has created the two tasks; no request has come
BackgroundInit ==
    /\ AnalyzeInit
    /\ ~hume_api_key
    /\ duration_ms = 0
    /\ TriggerIdle
    /\ ServerIdle
    /\ TwiceIdle
    /\ QueryIdle
    /\ RestIdle
    /\ file_age = << >>
    /\ memory_task = "sleeping"
    /\ cleanup_task = "sleeping"
    /\ failures_left = MaxFailures

\* sixty seconds pass: the cleanup task's sleep is over
AdvanceTime ==
    /\ cleanup_task = "sleeping"
    /\ file_age' = [f \in audio_files |-> Older(Age(f))]
    /\ cleanup_task' = "due"
    /\ UNCHANGED << memory_task, failures_left >>
    /\ UNCHANGED << serverVars, nonBackgroundVars >>

\* one iteration of the cleanup: every old file is unlinked, except those
\* whose stat() or unlink() raises, which are reported and passed over
CleanupRuns ==
    /\ cleanup_task = "due"
    /\ \E failing \in SUBSET { f \in audio_files : Old(f) } :
          /\ Cardinality(failing) <= failures_left
          /\ failures_left' = failures_left - Cardinality(failing)
          /\ audio_files' = { f \in audio_files : ~Old(f) \/ f \in failing }
          /\ file_age' = [f \in DOMAIN file_age \cap audio_files' |-> file_age[f]]
    /\ cleanup_task' = "sleeping"
    /\ UNCHANGED memory_task
    /\ UNCHANGED << audio_stats, EMOTION_CONFIG, omi_configured, requests,
                    analysis_calls, notification_calls >>
    /\ UNCHANGED nonBackgroundVars

\* a variant of CleanupRaises: the exception leaves the task
CleanupRaises_Escapes ==
    /\ cleanup_task = "due"
    /\ failures_left > 0
    /\ failures_left' = failures_left - 1
    /\ cleanup_task' = "finished"
    /\ UNCHANGED << file_age, memory_task >>
    /\ UNCHANGED << serverVars, nonBackgroundVars >>

\* the iteration raises outside the per-file handler (the directory cannot
\* be listed): the outer handler catches it, nothing is deleted
CleanupRaises ==
    /\ cleanup_task = "due"
    /\ failures_left > 0
    /\ failures_left' = failures_left - 1
    /\ cleanup_task' = "handling"
    /\ UNCHANGED << file_age, memory_task >>
    /\ UNCHANGED << serverVars, nonBackgroundVars >>

\* the outer handler has printed the error: `while True` goes on
CleanupRecovers ==
    /\ cleanup_task = "handling"
    /\ cleanup_task' = "sleeping"
    /\ UNCHANGED << file_age, memory_task, failures_left >>
    /\ UNCHANGED << serverVars, nonBackgroundVars >>

\* the hourly sleep is over: save_emotion_memory() is entered
MemoryWakes ==
    /\ memory_task = "sleeping"
    /\ memory_task' = "running"
    /\ UNCHANGED << file_age, cleanup_task, failures_left >>
    /\ UNCHANGED << serverVars, nonBackgroundVars >>

\* save_emotion_memory() returns its dict.  No analysis has succeeded in
\* this specification, so there is no summary and nothing is posted.
MemoryFinishes ==
    /\ memory_task = "running"
    /\ audio_stats.emotion_counts = << >>
    /\ memory_task' = "sleeping"
    /\ UNCHANGED << file_age, cleanup_task, failures_left >>
    /\ UNCHANGED << serverVars, nonBackgroundVars >>

\* the iteration raises: the handler of the loop catches it
MemoryRaises ==
    /\ memory_task = "running"
    /\ memory_task' = "handling"
    /\ UNCHANGED << file_age, cleanup_task, failures_left >>
    /\ UNCHANGED << serverVars, nonBackgroundVars >>

MemoryRecovers ==
    /\ memory_task = "handling"
    /\ memory_task' = "sleeping"
    /\ UNCHANGED << file_age, cleanup_task, failures_left >>
    /\ UNCHANGED << serverVars, nonBackgroundVars >>

\* a request does its next step
Serve ==
    \E r \in RequestIds : EmptyBody(r) \/ SkipAnalysis(r) \/ AnalysisRaises(r)

BackgroundNext ==
    \/ ReceiveFrom("u1")
    \/ \E r \in RequestIds : EmptyBody(r)
    \/ \E r \in RequestIds : SkipAnalysis(r)
    \/ \E r \in RequestIds : AnalysisRaises(r)
    \/ AdvanceTime
    \/ CleanupRuns
    \/ CleanupRaises
    \/ CleanupRecovers
    \/ MemoryWakes
    \/ MemoryFinishes
    \/ MemoryRaises
    \/ MemoryRecovers

\* The event loop runs whatever is ready, and time passes.
SpecBackground ==
    /\ BackgroundInit
    /\ [][BackgroundNext]_vars
    /\ WF_vars(Serve)
    /\ WF_vars(AdvanceTime)
    /\ WF_vars(CleanupRuns)
    /\ WF_vars(CleanupRecovers)
    /\ WF_vars(MemoryWakes)
    /\ WF_vars(MemoryRecovers)

(***************************************************************************)
(* One /audio request, its query parameters kept, after earlier requests   *)
(* or none, with whatever the analysis can return.                         *)
(***************************************************************************)
\* a prediction that carries no emotion score
SilentPrediction == [begin |-> Some(50), end |-> Some(60), emotions |-> << >>]

\* results with several predictions, the first of them silent or not
LongOutcomes ==
    { AnalyzeSingle(Response("prosody", "", None, lead \o << pq[1], pq[2] >>)) :
        lead \in { << >>, << SilentPrediction >> },
        pq \in { ab \in RawPredictions \X RawPredictions : ab[1] # ab[2] } }

RequestOutcomes == AnalysisOutcomes \cup LongOutcomes

\* enable_notification and emotion_filters of the request
Queries == [enable_notification : NotificationParams, filters : FilterParams]

\* audio_stats after two analyses of another user's audio
EarlierStats ==
    [InitialStats EXCEPT !.total_requests = 2,
                         !.successful_analyses = 2,
                         !.last_uid = Some("u2"),
                         !.recent_emotions = << "Anger (0.90)" >>,
                         !.emotion_counts = ("Anger" :> 2) @@ ("Joy" :> 1)]

RequestInit ==
    /\ AnalyzeInit
    /\ hume_api_key
    /\ duration_ms = 0
    /\ TriggerIdle
    /\ TwiceIdle
    /\ BackgroundIdle
    /\ RestIdle
    /\ audio_stats \in {InitialStats, EarlierStats}
    /\ EMOTION_CONFIG \in Configs
    /\ omi_configured \in BOOLEAN
    /\ requests = << >>
    /\ audio_files = {}
    /\ analysis_calls = {}
    /\ notification_calls = << >>
    /\ query \in Queries

\* the request arrives
ReceiveOne ==
    /\ requests = << >>
    /\ \E uid \in Uids : ReceiveFrom(uid)

\* the analysis returns to the request
QueriedAnalysisReturns(r) ==
    \E hume_results \in RequestOutcomes :
        AnalysisReturned(r, hume_results, query.enable_notification, query.filters)

RequestNext ==
    \/ ReceiveOne
    \/ \E r \in RequestIds : EmptyBody(r)
    \/ \E r \in RequestIds : SkipAnalysis(r)
    \/ \E r \in RequestIds : StartAnalysis(r)
    \/ \E r \in RequestIds : QueriedAnalysisReturns(r)
    \/ \E r \in RequestIds : NotifyReturns(r)

SpecRequest == RequestInit /\ [][RequestNext]_vars

(***************************************************************************)
(* send_notification called on its own, any number of times, calls         *)
(* overlapping at the await of the post.                                   *)
(***************************************************************************)
\* what is not send_notification's, the server's variables apart
nonSendVars == << analyzeVars, triggerVars, twiceVars, backgroundVars, queryVars,
                 configVars, resetVars, summaryVars >>

\* uid and message of the calls
Notices == [uid : Uids, message : {"Emotion Alert: Anger"}]

\* what a call has returned, with its arguments
SendResult(notice, success) ==
    Some([uid |-> notice.uid, message |-> notice.message, success |-> success])

SendInit ==
    /\ AnalyzeInit
    /\ hume_api_key
    /\ duration_ms = 0
    /\ TriggerIdle
    /\ TwiceIdle
    /\ BackgroundIdle
    /\ QueryIdle
    /\ RestIdle
    /\ audio_stats = InitialStats
    /\ EMOTION_CONFIG = DefaultConfig
    /\ omi_configured \in BOOLEAN
    /\ requests = << >>
    /\ audio_files = {}
    /\ analysis_calls = {}
    /\ notification_calls = << >>

\* OMI_APP_ID or OMI_API_KEY is not set: the call returns at once
SendUnconfigured(notice) ==
    /\ ~omi_configured
    /\ send_result' = SendResult(notice, FALSE)
    /\ UNCHANGED << posts, serverVars, nonSendVars >>

\* the request is posted and its answer awaited
PostNotification(notice) ==
    /\ omi_configured
    /\ notice \notin posts
    /\ posts' = posts \cup {notice}
    /\ UNCHANGED << send_result, serverVars, nonSendVars >>

\* the API answers with a 2xx status (ok) or another, or the post raises
NotificationAnswered(notice, ok) ==
    /\ notice \in posts
    /\ posts' = posts \ {notice}
    /\ audio_stats' =
          IF ok
          THEN [audio_stats EXCEPT !.recent_notifications = Remember(@, notice)]
          ELSE audio_stats
    /\ send_result' = SendResult(notice, ok)
    /\ UNCHANGED << EMOTION_CONFIG, omi_configured, requests, audio_files,
                    analysis_calls, notification_calls >>
    /\ UNCHANGED nonSendVars

SendNext ==
    \/ \E notice \in Notices : SendUnconfigured(notice)
    \/ \E notice \in Notices : PostNotification(notice)
    \/ \E notice \in Notices, ok \in BOOLEAN : NotificationAnswered(notice, ok)

SpecSend == SendInit /\ [][SendNext]_vars

(***************************************************************************)
(* POST /emotion-config: update_emotion_config.  Thresholds are numbers,   *)
(* in hundredths; a key of the body other than the two validated ones is   *)
(* not modelled.                                                           *)
(***************************************************************************)
nonConfigVars == << analyzeVars, triggerVars, twiceVars, backgroundVars, queryVars,
                   sendVars, resetVars, summaryVars >>

\* the values "notification_enabled" can have in the body
EnabledValues == { [type |-> "bool", value |-> b] : b \in BOOLEAN }
                     \cup { [type |-> "str", value |-> FALSE] }

\* the values "emotion_thresholds" can have in the body
ThresholdValues ==
    { [type |-> "dict", dict |-> d] :
        d \in { << >>, "Anger" :> 70, "Anger" :> 150, "Anger" :> (0 - 10),
                ("Anger" :> 70) @@ ("Joy" :> 101) } }
        \cup { [type |-> "list", dict |-> << >>] }

\* the bodies of the requests: JSON objects with each key present or not,
\* and a body that is not JSON
Payloads ==
    [json : {TRUE},
     notification_enabled : {None} \cup { Some(v) : v \in EnabledValues },
     emotion_thresholds : {None} \cup { Some(v) : v \in ThresholdValues }]
        \cup { [json |-> FALSE, notification_enabled |-> None,
                emotion_thresholds |-> None] }

\* threshold < 0 or threshold > 1
OutOfRange(threshold) == threshold < 0 \/ threshold > 100

\* what the try block raises before the update, "" if nothing
Validate(payload) ==
    IF ~payload.json THEN "JSONDecodeError"
    ELSE IF /\ payload.notification_enabled # None
            /\ payload.notification_enabled[1].type # "bool"
         THEN "HTTPException"
    ELSE IF payload.emotion_thresholds = None THEN ""
    ELSE IF payload.emotion_thresholds[1].type # "dict" THEN "HTTPException"
    ELSE IF \E name \in DOMAIN payload.emotion_thresholds[1].dict :
                OutOfRange(payload.emotion_thresholds[1].dict[name])
         THEN "HTTPException"
    ELSE ""

\* `except json.JSONDecodeError` answers 400; the HTTPException raised by the
\* validation is an Exception and no handler precedes `except Exception`,
\* which answers 500
StatusOfException(raised) ==
    IF raised = "JSONDecodeError" THEN 400 ELSE 500

\* EMOTION_CONFIG.update(new_config)
UpdatedConfig(config, payload) ==
    [notification_enabled |->
         IF payload.notification_enabled # None
         THEN payload.notification_enabled[1].value
         ELSE config.notification_enabled,
     emotion_thresholds |->
         IF payload.emotion_thresholds # None
         THEN payload.emotion_thresholds[1].dict
         ELSE config.emotion_thresholds]

ConfigInit ==
    /\ AnalyzeInit
    /\ hume_api_key
    /\ duration_ms = 0
    /\ TriggerIdle
    /\ TwiceIdle
    /\ BackgroundIdle
    /\ QueryIdle
    /\ posts = {} /\ send_result = None
    /\ resets = 0
    /\ key_order = << >> /\ audio_stats_mixed = None /\ key_order_mixed = << >>
    /\ stored = None /\ stored_mixed = None
    /\ audio_stats = InitialStats
    /\ EMOTION_CONFIG \in Configs
    /\ omi_configured = TRUE
    /\ requests = << >>
    /\ audio_files = {}
    /\ analysis_calls = {}
    /\ notification_calls = << >>
    /\ config_file \in {None, Some(EMOTION_CONFIG)}
    /\ config_response = None

\* the whole handler; written tells whether emotion_config.json could be
\* opened and written
UpdateConfig(payload, written) ==
    LET raised == Validate(payload)
        updated == UpdatedConfig(EMOTION_CONFIG, payload)
    IN  /\ IF raised # ""
           THEN /\ config_response' = Some([payload |-> payload,
                                            status |-> StatusOfException(raised)])
                /\ UNCHANGED << EMOTION_CONFIG, config_file >>
           ELSE /\ EMOTION_CONFIG' = updated
                /\ IF written
                   THEN /\ config_file' = Some(updated)
                        /\ config_response' = Some([payload |-> payload,
                                                    status |-> 200])
                   ELSE /\ UNCHANGED config_file
                        /\ config_response' = Some([payload |-> payload,
                                                    status |-> StatusOfException("OSError")])
        /\ UNCHANGED << audio_stats, omi_configured, requests, audio_files,
                        analysis_calls, notification_calls >>
        /\ UNCHANGED nonConfigVars

ConfigNext == \E payload \in Payloads, written \in BOOLEAN : UpdateConfig(payload, written)

SpecConfig == ConfigInit /\ [][ConfigNext]_vars

(***************************************************************************)
(* POST /reset-stats among /audio requests.  reset_stats rebinds the       *)
(* global audio_stats; the /audio handler and send_notification look the   *)
(* global up at every use, so a request suspended at an await goes on      *)
(* with the new dictionary.                                                *)
(***************************************************************************)
\* how many /reset-stats calls are made
MaxResets == 1

ResetInit ==
    /\ AnalyzeInit
    /\ hume_api_key
    /\ duration_ms = 0
    /\ TriggerIdle
    /\ TwiceIdle
    /\ LaterIdle
    /\ audio_stats = InitialStats
    /\ EMOTION_CONFIG = DefaultConfig
    /\ omi_configured = TRUE
    /\ requests = << >>
    /\ audio_files = {}
    /\ analysis_calls = {}
    /\ notification_calls = << >>

\* the whole handler: it awaits nothing
ResetStats ==
    /\ resets < MaxResets
    /\ resets' = resets + 1
    /\ audio_stats' = InitialStats
    /\ UNCHANGED << EMOTION_CONFIG, omi_configured, requests, audio_files,
                    analysis_calls, notification_calls >>
    /\ UNCHANGED << analyzeVars, triggerVars, twiceVars, backgroundVars, queryVars,
                    sendVars, configVars, summaryVars >>

ResetNext ==
    \/ ReceiveFrom("u1")
    \/ \E r \in RequestIds : EmptyBody(r)
    \/ \E r \in RequestIds : SkipAnalysis(r)
    \/ \E r \in RequestIds : StartAnalysis(r)
    \/ \E r \in RequestIds : AnalysisReturns(r)
    \/ \E r \in RequestIds : NotifyReturns(r)
    \/ ResetStats

SpecReset == ResetInit /\ [][ResetNext]_vars

(***************************************************************************)
(* save_emotion_memory for a user, in two histories side by side.  The     *)
(* first history (audio_stats, key_order, stored) holds the /audio         *)
(* requests of user "u1" only; the second (audio_stats_mixed,              *)
(* key_order_mixed, stored_mixed) holds the same requests of "u1" with     *)
(* requests of "u2" among them.  A save is made in both histories at the   *)
(* same point.  Requests run one after another here, a request being       *)
(* counted and its analysis counted in one step.                           *)
(***************************************************************************)
\* lines 869-871
CountRequest(stats, uid) ==
    [stats EXCEPT !.total_requests = @ + 1, !.last_uid = Some(uid)]

\* the keys of emotion_counts after the names of top_3 were counted: a dict
\* keeps its keys in the order they were added
RECURSIVE KeysAfter(_, _)
KeysAfter(order, top_3) ==
    IF top_3 = << >> THEN order
    ELSE KeysAfter(IF \E k \in 1..Len(order) : order[k] = Head(top_3).name
                   THEN order ELSE Append(order, Head(top_3).name),
                   Tail(top_3))

\* the order of the keys after an analysis has returned hume_results
KeysCounted(order, hume_results) ==
    IF hume_results.success
    THEN KeysAfter(order, FirstTop3(hume_results.predictions))
    ELSE order

\* emotion_counts.items()
Items(counts, order) ==
    [k \in 1..Len(order) |-> [name |-> order[k], score |-> counts[order[k]]]]

\* sum(emotion_counts.values())
RECURSIVE TotalCount(_)
TotalCount(items) ==
    IF items = << >> THEN 0 ELSE Head(items).score + TotalCount(Tail(items))

\* f"{percentage:.1f}" in tenths of a percent; below a total of 16 no
\* percentage lies halfway between two tenths
Percentage(count, total) == (2000 * count + total) \div (2 * total)

\* generate_emotion_summary
GenerateEmotionSummary(stats, order) ==
    IF stats.emotion_counts = << >>
    THEN [success |-> FALSE, summary |-> << >>, emotions |-> << >>,
          total_detections |-> 0]
    ELSE LET items == Items(stats.emotion_counts, order)
             sorted == SortedEmotions(items)
             sorted_emotions == SubSeq(sorted, 1, Min(5, Len(sorted)))
             total_count == TotalCount(items)
         IN  [success |-> TRUE,
              summary |-> [k \in 1..Len(sorted_emotions) |->
                              [name |-> sorted_emotions[k].name,
                               percentage |-> Percentage(sorted_emotions[k].score,
                                                         total_count)]],
              emotions |-> [k \in 1..Len(sorted_emotions) |->
                               [name |-> sorted_emotions[k].name,
                                count |-> sorted_emotions[k].score]],
              total_detections |-> total_count]

\* what one call of save_emotion_memory leaves: the user it was for and the
\* memory posted for that user, None if none was
SaveEmotionMemory(uid, stats, order, configured) ==
    LET target_uid == IF uid # None THEN uid ELSE stats.last_uid
        summary == GenerateEmotionSummary(stats, order)
    IN  [uid |-> target_uid,
         memory |-> IF target_uid # None /\ summary.success /\ configured
                    THEN Some([text |-> summary.summary,
                               emotions |-> summary.emotions,
                               total |-> summary.total_detections])
                    ELSE None]

SummaryInit ==
    /\ AnalyzeInit
    /\ hume_api_key
    /\ duration_ms = 0
    /\ TriggerIdle
    /\ TwiceIdle
    /\ BackgroundIdle
    /\ QueryIdle
    /\ posts = {} /\ send_result = None
    /\ config_file = None /\ config_response = None
    /\ resets = 0
    /\ audio_stats = InitialStats
    /\ EMOTION_CONFIG = DefaultConfig
    /\ omi_configured \in BOOLEAN
    /\ requests = << >>
    /\ audio_files = {}
    /\ analysis_calls = {}
    /\ notification_calls = << >>
    /\ key_order = << >>
    /\ audio_stats_mixed = InitialStats
    /\ key_order_mixed = << >>
    /\ stored = None
    /\ stored_mixed = None

\* what the summary section leaves alone
summaryRest == << EMOTION_CONFIG, omi_configured, requests, audio_files,
                 analysis_calls, notification_calls, analyzeVars, triggerVars,
                 twiceVars, backgroundVars, queryVars, sendVars, configVars,
                 resetVars >>

\* a request of "u1": it is in both histories
OwnRequest(hume_results) ==
    /\ audio_stats_mixed.total_requests < MaxRequests
    /\ audio_stats' = CountAnalysis(CountRequest(audio_stats, "u1"), hume_results)
    /\ key_order' = KeysCounted(key_order, hume_results)
    /\ audio_stats_mixed' =
          CountAnalysis(CountRequest(audio_stats_mixed, "u1"), hume_results)
    /\ key_order_mixed' = KeysCounted(key_order_mixed, hume_results)
    /\ UNCHANGED << stored, stored_mixed, summaryRest >>

\* a request of "u2": it is in the second history only
OtherRequest(hume_results) ==
    /\ audio_stats_mixed.total_requests < MaxRequests
    /\ audio_stats_mixed' =
          CountAnalysis(CountRequest(audio_stats_mixed, "u2"), hume_results)
    /\ key_order_mixed' = KeysCounted(key_order_mixed, hume_results)
    /\ UNCHANGED << audio_stats, key_order, stored, stored_mixed, summaryRest >>

\* save_emotion_memory(uid), from the hourly task (uid None) or from
\* POST /save-emotion-memory, at the same point of both histories
SaveMemory(uid) ==
    /\ stored' = Some(SaveEmotionMemory(uid, audio_stats, key_order, omi_configured))
    /\ stored_mixed' = Some(SaveEmotionMemory(uid, audio_stats_mixed,
                                              key_order_mixed, omi_configured))
    /\ UNCHANGED << audio_stats, key_order, audio_stats_mixed, key_order_mixed,
                    summaryRest >>

SummaryNext ==
    \/ \E hume_results \in AnalysisOutcomes : OwnRequest(hume_results)
    \/ \E hume_results \in AnalysisOutcomes : OtherRequest(hume_results)
    \/ \E uid \in {None, Some("u1")} : SaveMemory(uid)

SpecSummary == SummaryInit /\ [][SummaryNext]_vars

(***************************************************************************)
(* Vocabulary of the properties                                            *)
(***************************************************************************)
\* the call has returned from "Combine results from all chunks"
Combined == pc = "done" /\ returned_by = "combine"

\* ceil(d / c), from its definition: the least n with n * c >= d
CeilDiv(d, c) == CHOOSE n \in 0..(d \div c + 1) : n * c >= d /\ (n - 1) * c < d

CallLength(call) == call.end_ms - call.start_ms

Failed(k) == ~rets[k].success

\* what the merged sequence keeps of a prediction besides its time: the
\* window it is tagged with and its emotions
Tagged(window, pred) ==
    [window |-> window, emotions |-> pred.emotions, top_3_emotions |-> pred.top_3_emotions]

TaggedSeq(window, predictions) ==
    [k \in 1..Len(predictions) |-> Tagged(window, predictions[k])]

MergedTagged ==
    [k \in 1..Len(result.predictions) |->
        Tagged(result.predictions[k].chunk_index, result.predictions[k])]

\* the predictions of the succeeded windows among the first n, in window order
RECURSIVE SucceededTagged(_)
SucceededTagged(n) ==
    IF n = 0 THEN << >>
    ELSE SucceededTagged(n - 1)
            \o (IF rets[n].success
                THEN TaggedSeq(Some(n - 1), rets[n].predictions)
                ELSE << >>)

\* C1: for audio of at most 5000 ms no chunk file is ever created and no
\* file but the original is analysed, at most once; when the call returns
\* from the direct path it has made exactly one inference call, on the
\* whole original file, and returns what that call returned.
C1_DirectPath ==
    duration_ms <= 5000 =>
        /\ disk = {} /\ chunk_files = << >>
        /\ Len(calls) <= 1
        /\ \A k \in 1..Len(calls) : calls[k] = Call(OriginalFile, 0, duration_ms)
        /\ pc = "done" => returned_by \in {"direct", "except"}
        /\ (pc = "done" /\ returned_by = "direct") =>
                /\ Len(calls) = 1 /\ Len(rets) = 1
                /\ result = rets[1]
        /\ (pc = "done" /\ returned_by = "except") => calls = << >>

\* a 5000 ms audio analysed directly, with success
C1_Witness ==
    /\ pc = "done" /\ returned_by = "direct"
    /\ duration_ms = 5000
    /\ result.success

\* C2: for audio longer than 5000 ms the windows are contiguous from 0 and
\* non-empty at every moment, and when the loop is over there are
\* ceil(duration_ms / 4500) of them, as num_chunks reports, the last one
\* ends at duration_ms and has length duration_ms - 4500 * (count - 1).
C2_Windows ==
    duration_ms > 5000 =>
        /\ \A k \in 1..Len(calls) :
              /\ calls[k].start_ms = (IF k = 1 THEN 0 ELSE calls[k - 1].end_ms)
              /\ calls[k].start_ms < calls[k].end_ms
        /\ Combined =>
              LET n == Len(calls)
              IN  /\ n = CeilDiv(duration_ms, 4500)
                  /\ result.num_chunks = Some(n)
                  /\ calls[n].end_ms = duration_ms
                  /\ CallLength(calls[n]) = duration_ms - 4500 * (n - 1)

\* the 12,000 ms scenario: windows of 4500, 4500 and 3000 ms
C2_Witness ==
    /\ Combined
    /\ duration_ms = 12000
    /\ [k \in 1..Len(calls) |-> CallLength(calls[k])] = << 4500, 4500, 3000 >>

\* position in the merged sequence before the first prediction of window n + 1
RECURSIVE MergedOffset(_)
MergedOffset(n) ==
    IF n = 0 THEN 0
    ELSE MergedOffset(n - 1) + (IF rets[n].success THEN Len(rets[n].predictions) ELSE 0)

\* a reported time t of window k (zero-based) is merged as t + k * 4.5 s
Shifted(reported, merged, k) ==
    reported # None => merged = Some(reported[1] + k * 4500)

\* C3: when the chunked analysis returns its merged result, every prediction
\* of every succeeded window i has each reported begin and end (0 included)
\* shifted by i * 4.5 s.
C3_OffsetLaw ==
    (Combined /\ result.success) =>
        \A k \in 1..Len(rets) :
            rets[k].success =>
                \A j \in 1..Len(rets[k].predictions) :
                    LET reported == rets[k].predictions[j].time
                        merged == result.predictions[MergedOffset(k - 1) + j].time
                    IN  /\ Shifted(reported.begin, merged.begin, k - 1)
                        /\ Shifted(reported.end, merged.end, k - 1)

\* C4: when the loop is over and some but not all windows failed, every
\* window was dispatched and answered, the result is a success, and its
\* predictions are those of the succeeded windows, in window order, each
\* tagged with its window, with nothing from a failed window.
C4_PartialFailure ==
    (/\ Combined
     /\ \E k \in 1..Len(rets) : Failed(k)
     /\ \E k \in 1..Len(rets) : ~Failed(k)) =>
        /\ Len(calls) = CeilDiv(duration_ms, 4500)
        /\ Len(rets) = Len(calls)
        /\ result.success
        /\ result.total_predictions = Some(Len(result.predictions))
        /\ MergedTagged = SucceededTagged(Len(rets))

\* window 2 of 4 fails and the other three succeed
C4_Witness ==
    /\ Combined
    /\ Len(rets) = 4
    /\ Failed(3)
    /\ \A k \in {1, 2, 4} : ~Failed(k)
    /\ result.success

\* C5: when the inference of every window of a chunked analysis has failed,
\* the call has returned from the combine step with success false, no
\* predictions and the error "All chunks failed to analyze".
C5_TotalFailure ==
    (/\ pc = "done"
     /\ duration_ms > 5000
     /\ Len(rets) = CeilDiv(duration_ms, 4500)
     /\ \A k \in 1..Len(rets) : Failed(k)) =>
        /\ returned_by = "combine"
        /\ Len(calls) = CeilDiv(duration_ms, 4500)
        /\ result.success = FALSE
        /\ result.predictions = << >>
        /\ result.error = Some("All chunks failed to analyze")

\* four windows, all failed, one of them by an exception
C5_Witness ==
    /\ Combined
    /\ Len(rets) = 4
    /\ \A k \in 1..4 : Failed(k)
    /\ \E k \in 1..4 : rets[k].error = Some("connection closed")

\* C6: every dict returned by _analyze_single_audio and the dict returned by
\* analyze_audio_with_hume has an empty predictions list when its success
\* is false.
C6_FailureHasNoPredictions ==
    /\ \A k \in 1..Len(rets) : ~rets[k].success => rets[k].predictions = << >>
    /\ pc = "done" => (~result.success => result.predictions = << >>)

\* a chunked analysis aborted by an exception after predictions were accumulated
C6_Witness ==
    /\ pc = "done"
    /\ returned_by = "except"
    /\ chunks_data # << >>
    /\ ~result.success

\* C7: the call is never left by an exception once an inference call was
\* issued, and when the direct call failed, or every window failed, the
\* returned dict has success false and a non-empty error string.
C7_FailureReported ==
    /\ pc = "raised" => calls = << >>
    /\ (/\ pc = "done"
        /\ returned_by \in {"direct", "combine"}
        /\ \A k \in 1..Len(rets) : Failed(k)) =>
            /\ result.success = FALSE
            /\ result.error # None
            /\ result.error # Some("")

\* C8: no file is handed to _analyze_single_audio twice and no call is
\* answered twice; the direct path makes one call, failed or not, and when
\* the chunk loop is over window k was analysed by call k, so that there are
\* as many calls as windows.
C8_NoRetry ==
    /\ \A a, b \in 1..Len(calls) : a # b => calls[a].file # calls[b].file
    /\ Len(rets) <= Len(calls)
    /\ (pc = "done" /\ returned_by = "direct") => Len(calls) = 1
    /\ Combined =>
          /\ Len(calls) = CeilDiv(duration_ms, 4500)
          /\ Len(rets) = Len(calls)
          /\ \A k \in 1..Len(calls) : calls[k].file = ChunkFile(k - 1)

\* three windows, the first two failed, three calls
C8_Witness ==
    /\ Combined
    /\ Len(calls) = 3
    /\ Failed(1) /\ Failed(2) /\ ~Failed(3)

\* C9: every inference call carries audio of positive duration of at most
\* 5000 ms, and every window of the chunked path has
\* start_ms < end_ms <= duration_ms and is at most 4500 ms long.
C9_CallsWithinLimit ==
    \A k \in 1..Len(calls) :
        /\ CallLength(calls[k]) > 0
        /\ CallLength(calls[k]) <= 5000
        /\ calls[k].file.chunk =>
              /\ calls[k].start_ms < calls[k].end_ms
              /\ calls[k].end_ms <= duration_ms
              /\ CallLength(calls[k]) <= 4500

\* C9, for audio of positive duration: every inference call carries audio of
\* positive duration of at most 5000 ms, and every window of the chunked path
\* has start_ms < end_ms <= duration_ms and is at most 4500 ms long.
C9_CallsWithinLimit_Positive ==
    duration_ms > 0 => C9_CallsWithinLimit

\* a 9001 ms audio: two windows of 4500 ms and a last window of 1 ms
C9_Witness ==
    /\ Combined
    /\ duration_ms = 9001
    /\ Len(calls) = 3
    /\ CallLength(calls[1]) = 4500
    /\ CallLength(calls[3]) = 1

\* the predictions of the merged result tagged with window k (zero-based)
MergedOfWindow(k) ==
    SelectSeq(MergedTagged, LAMBDA p : p.window = Some(k))

\* C10: in the merged result of a chunked analysis the chunk_index tags are
\* present and never decrease along the sequence, and the predictions tagged
\* with a window are the predictions that window returned, in the order it
\* returned them (none for a failed window).
C10_Ordering ==
    (Combined /\ result.success) =>
        /\ \A a, b \in 1..Len(result.predictions) :
              a < b =>
                /\ result.predictions[a].chunk_index # None
                /\ result.predictions[b].chunk_index # None
                /\ result.predictions[a].chunk_index[1]
                      <= result.predictions[b].chunk_index[1]
        /\ \A p \in 1..Len(result.predictions) :
              /\ result.predictions[p].chunk_index # None
              /\ result.predictions[p].chunk_index[1] \in 0..(Len(rets) - 1)
        /\ \A k \in 1..Len(rets) :
              MergedOfWindow(k - 1)
                 = (IF rets[k].success
                    THEN TaggedSeq(Some(k - 1), rets[k].predictions)
                    ELSE << >>)

\* two predictions from window 0 and two, in another order, from window 2
C10_Witness ==
    /\ Combined
    /\ Len(rets) >= 3
    /\ Len(result.predictions) = 4
    /\ [k \in 1..4 |-> result.predictions[k].chunk_index] = << <<0>>, <<0>>, <<2>>, <<2>> >>
    /\ result.predictions[1].emotions = result.predictions[4].emotions
    /\ result.predictions[2].emotions = result.predictions[3].emotions
    /\ result.predictions[1].emotions # result.predictions[2].emotions

\* the inference calls issued and not yet answered
Outstanding == Len(calls) - Len(rets)

\* C11: a step that issues an inference call starts from a state in which
\* every earlier call has been answered, and no step leaves more than one
\* call outstanding.
C11_SequentialDispatch ==
    [][ /\ Len(calls') > Len(calls) => Outstanding = 0
        /\ Outstanding' \in {0, 1} ]_vars

\* the third window's call is outstanding, the first two have been answered
C11_Witness ==
    /\ pc = "chunk"
    /\ Len(calls) = 3
    /\ Len(rets) = 2

\* C12: when a chunked analysis has returned, by either return of the
\* combine step or through the exception handler, no chunk file is left.
C12_ChunkFilesReleased ==
    (pc = "done" /\ duration_ms > 5000) => disk = {}

\* emotions in descending order of score
Descending(emotions) ==
    \A a, b \in 1..Len(emotions) : a < b => emotions[a].score >= emotions[b].score

\* the first min(3, n) entries
FirstThree(emotions) ==
    SubSeq(emotions, 1, IF Len(emotions) < 3 THEN Len(emotions) ELSE 3)

\* C17: every prediction of a successful result, of _analyze_single_audio
\* or of analyze_audio_with_hume, has its emotions in descending order of
\* score and the first min(3, n) of them as top_3_emotions.
C17_SortedEmotions ==
    /\ \A k \in 1..Len(rets) :
          rets[k].success =>
             \A j \in 1..Len(rets[k].predictions) :
                /\ Descending(rets[k].predictions[j].emotions)
                /\ rets[k].predictions[j].top_3_emotions
                      = FirstThree(rets[k].predictions[j].emotions)
    /\ (pc = "done" /\ result.success) =>
          \A j \in 1..Len(result.predictions) :
             /\ Descending(result.predictions[j].emotions)
             /\ result.predictions[j].top_3_emotions
                   = FirstThree(result.predictions[j].emotions)

\* a merged result with a prediction of four emotions, reported unsorted
\* and with two equal scores, whose top 3 are Anger, Calmness and Joy
C17_Witness ==
    /\ Combined
    /\ result.success
    /\ \E j \in 1..Len(result.predictions) :
          /\ Len(result.predictions[j].emotions) = 4
          /\ [k \in 1..3 |-> result.predictions[j].top_3_emotions[k].name]
                = << "Anger", "Calmness", "Joy" >>

\* C22: at most one chunk file of the analysis exists at any time: a
\* window's chunk file is released before the next window's is created.
C22_ScopedRelease == Cardinality(disk) <= 1

(***************************************************************************)
(* Properties of check_emotion_triggers (under SpecTrigger)                *)
(***************************************************************************)
Evaluated == trigger_result # None

\* every emotion score of every prediction, in the order met
RECURSIVE AllScores(_)
AllScores(preds) ==
    IF preds = << >> THEN << >>
    ELSE [k \in 1..Len(Head(preds).emotions) |->
             [name |-> Head(preds).emotions[k].name,
              score |-> Head(preds).emotions[k].score,
              time |-> Head(preds).time]]
         \o AllScores(Tail(preds))

RECURSIVE ScoreCount(_)
ScoreCount(preds) ==
    IF preds = << >> THEN 0 ELSE Len(Head(preds).emotions) + ScoreCount(Tail(preds))

\* a is b with some entries left out
RECURSIVE IsSubsequence(_, _)
IsSubsequence(a, b) ==
    IF a = << >> THEN TRUE
    ELSE IF b = << >> THEN FALSE
    ELSE IF Head(a) = Head(b) THEN IsSubsequence(Tail(a), Tail(b))
    ELSE IsSubsequence(a, Tail(b))

\* C13: with filters None or the empty dict, the matched list is every
\* emotion score of every prediction, so there are as many matches as scores.
C13_PassThrough ==
    (Evaluated /\ (emotion_filters = None \/ emotion_filters = Some(<< >>))) =>
        /\ trigger_result[1].emotions = AllScores(trigger_predictions)
        /\ trigger_result[1].total_triggers = ScoreCount(trigger_predictions)

\* the empty dict and two predictions with six scores between them
C13_Witness ==
    /\ Evaluated
    /\ emotion_filters = Some(<< >>)
    /\ Len(trigger_predictions) = 2
    /\ trigger_result[1].total_triggers = 6

\* C14: with a non-empty dict of filters, the matched list is the scores
\* whose name is a key of the dict, whatever the threshold under that key.
C14_NameOnly ==
    (Evaluated /\ emotion_filters # None /\ emotion_filters # Some(<< >>)) =>
        trigger_result[1].emotions
            = SelectSeq(AllScores(trigger_predictions),
                        LAMBDA e : e.name \in DOMAIN emotion_filters[1])

\* filters {"Anger": 0.9} match an Anger score of 0.7
C14_Witness ==
    /\ Evaluated
    /\ emotion_filters = Some("Anger" :> 90)
    /\ \E k \in 1..Len(trigger_result[1].emotions) :
          /\ trigger_result[1].emotions[k].name = "Anger"
          /\ trigger_result[1].emotions[k].score = 70

\* C15: with a non-empty dict of filters, triggered is true only if some
\* emotion score whose name is a key reaches the threshold under that key.
C15_ThresholdEnforced ==
    (/\ Evaluated
     /\ emotion_filters # None /\ emotion_filters # Some(<< >>)
     /\ trigger_result[1].triggered) =>
        \E k \in 1..Len(AllScores(trigger_predictions)) :
            LET e == AllScores(trigger_predictions)[k]
            IN  /\ e.name \in DOMAIN emotion_filters[1]
                /\ e.score >= emotion_filters[1][e.name]

\* C16: the matched list keeps the order in which the scores are met,
\* triggered is true exactly when it is not empty, and total_triggers is its
\* length.
C16_Output ==
    Evaluated =>
        /\ IsSubsequence(trigger_result[1].emotions, AllScores(trigger_predictions))
        /\ trigger_result[1].triggered <=> (trigger_result[1].emotions # << >>)
        /\ trigger_result[1].total_triggers = Len(trigger_result[1].emotions)

\* two predictions, each with one match, out of more scores
C16_Witness ==
    /\ Evaluated
    /\ Len(trigger_predictions) = 2
    /\ trigger_result[1].triggered
    /\ trigger_result[1].total_triggers = 2
    /\ trigger_result[1].emotions[1].time = trigger_predictions[1].time
    /\ trigger_result[1].emotions[2].time = trigger_predictions[2].time
    /\ ScoreCount(trigger_predictions) > 2

(***************************************************************************)
(* Properties of POST /audio (under SpecServer)                            *)
(***************************************************************************)
EmptyBodied(r) == requests[r].audio_data = Some(EmptyData)

AllAnswered == \A r \in RequestIds : requests[r].pc = "done"

\* the requests whose analysis returned a result
Analysed == { r \in RequestIds : requests[r].hume_results # None }

\* C18: a request whose body is empty is answered with 400; it never calls
\* the analysis, never has a file in audio_files/, never posts a
\* notification, and the step that rejects it changes neither
\* successful_analyses nor failed_analyses.
C18_EmptyBodyRejected ==
    /\ [](\A r \in RequestIds :
            EmptyBodied(r) =>
                /\ requests[r].status = 400
                /\ r \notin analysis_calls
                /\ r \notin audio_files
                /\ \A k \in 1..Len(notification_calls) : notification_calls[k].request # r)
    /\ [][\A r \in RequestIds :
            (~EmptyBodied(r) /\ EmptyBodied(r)') =>
                /\ audio_stats'.successful_analyses = audio_stats.successful_analyses
                /\ audio_stats'.failed_analyses = audio_stats.failed_analyses
                /\ audio_files' = audio_files
                /\ analysis_calls' = analysis_calls
                /\ notification_calls' = notification_calls]_vars

\* an empty body rejected while another request has been analysed
C18_Witness ==
    /\ Len(requests) = 2
    /\ EmptyBodied(2)
    /\ requests[2].status = 400
    /\ requests[1].hume_results # None
    /\ audio_stats.total_requests = 2

\* C19: once every request received is answered, total_requests is the
\* number of requests received and successful_analyses + failed_analyses is
\* the number of requests whose analysis returned a result.
C19_NoLostUpdate ==
    AllAnswered =>
        /\ audio_stats.total_requests = Len(requests)
        /\ audio_stats.successful_analyses + audio_stats.failed_analyses
               = Cardinality(Analysed)

\* two overlapping requests: the second one's analysis succeeded, and the
\* first one's returned after it (recent_emotions is the first one's)
C19_Witness ==
    /\ AllAnswered
    /\ Len(requests) = 2
    /\ requests[1].hume_results # None /\ requests[2].hume_results # None
    /\ requests[1].hume_results[1].success /\ requests[2].hume_results[1].success
    /\ requests[1].hume_results # requests[2].hume_results
    /\ audio_stats.recent_emotions
           = RecentEmotions(requests[1].hume_results[1].predictions[1].top_3_emotions)
    /\ audio_stats.successful_analyses = 2

(***************************************************************************)
(* Properties of two calls on the same file (under SpecTwice)              *)
(***************************************************************************)
\* C20: when analyze_audio_with_hume is called a second time on the same
\* file, and the collaborator answers each call as it did the first time,
\* the second call returns the dict the first call returned, in the direct
\* path and in the chunked path.
C20_Idempotent ==
    (run = 2 /\ pc = "done") => first_result = Some(result)

\* a second chunked analysis of three windows, with predictions from two of
\* them and the other one failed
C20_Witness ==
    /\ run = 2
    /\ Combined
    /\ Len(calls) = 3
    /\ result.success
    /\ \E k \in 1..3 : Failed(k)
    /\ Len(result.predictions) >= 2

(***************************************************************************)
(* Properties of the background tasks (under SpecBackground)               *)
(***************************************************************************)
TaskStates == {"sleeping", "due", "running", "handling"}

\* C21: an exception in an iteration of either task ends neither task;
\* the task whose iteration raised goes on to its next iteration, and
\* every request received is answered.
C21_TaskIsolation ==
    /\ [](memory_task \in TaskStates /\ cleanup_task \in TaskStates)
    /\ (memory_task = "handling") ~> (memory_task = "running")
    /\ (cleanup_task = "handling") ~> (cleanup_task = "due")
    /\ \A r \in 1..MaxRequests :
          (Len(requests) >= r) ~> (Len(requests) >= r /\ requests[r].pc = "done")

\* both tasks are in their exception handlers while a request is under way
C21_Witness ==
    /\ memory_task = "handling"
    /\ cleanup_task = "handling"
    /\ Len(requests) = 1
    /\ requests[1].pc = "body"

\* what a cleanup iteration that reaches its end does: the step from "due"
\* back to "sleeping"
CleanupCompletes == cleanup_task = "due" /\ cleanup_task' = "sleeping"

\* the sleep of the cleanup task ends and its iteration runs, to its end or not
CleanupTick == cleanup_task = "due" /\ cleanup_task' # "due"

PostsOf(r) == { k \in 1..Len(notification_calls) : notification_calls[k].request = r }

\* whether notifications are on for the request
NotificationsOn ==
    IF query.enable_notification = None THEN EMOTION_CONFIG.notification_enabled
    ELSE query.enable_notification = Some(TRUE)

Settled(r) == requests[r].pc \in {"notifying", "done"} /\ requests[r].hume_results # None

\* what the trigger evaluator gives on the request's predictions with the
\* configured emotion_thresholds
ConfiguredTrigger(r) ==
    CheckEmotionTriggers(requests[r].hume_results[1].predictions,
                         Some(EMOTION_CONFIG.emotion_thresholds))

\* C28: an emotion_filters parameter that is not valid JSON does not reject
\* the request and is not pass-through: the notification is decided by the
\* configured emotion_thresholds, as when the parameter is absent.
C28_InvalidFiltersFallBack ==
    \A r \in RequestIds :
        (/\ query.filters \in {None, Some("not json")}
         /\ Settled(r)
         /\ requests[r].hume_results[1].success
         /\ NotificationsOn) =>
            /\ requests[r].status # 500 /\ requests[r].status # 400
            /\ (PostsOf(r) # {}) <=> (omi_configured /\ ConfiguredTrigger(r).triggered)
            /\ \A k \in PostsOf(r) :
                  notification_calls[k].message
                      = NotificationMessage(ConfiguredTrigger(r).emotions)
            /\ (requests[r].pc = "done" /\ ~ConfiguredTrigger(r).triggered) =>
                  requests[r].notification_sent = Some(FALSE)

\* the parameter does not parse, the configured filter is {"Joy": 0.5}, the
\* analysis found Anger only: no notification, where pass-through would send one
C28_Witness ==
    /\ Len(requests) = 1
    /\ query.filters = Some("not json")
    /\ query.enable_notification = Some(TRUE)
    /\ omi_configured
    /\ EMOTION_CONFIG.emotion_thresholds = "Joy" :> 50
    /\ requests[1].status = 200
    /\ requests[1].hume_results # None
    /\ requests[1].hume_results[1].success
    /\ requests[1].notification_sent = Some(FALSE)
    /\ notification_calls = << >>

\* emotion_counts[name], 0 for a name never counted
CountOf(counts, name) == IF name \in DOMAIN counts THEN counts[name] ELSE 0

RECURSIVE SumOfCounts(_)
SumOfCounts(counts) ==
    IF DOMAIN counts = {} THEN 0
    ELSE LET name == CHOOSE n \in DOMAIN counts : TRUE
         IN  counts[name] + SumOfCounts([n \in DOMAIN counts \ {name} |-> counts[n]])

EmotionNames == {"Anger", "Joy", "Calmness", "Fear", "Sadness"}

\* the names among the top three of the first prediction that has any
FirstTop3Names(predictions) ==
    LET having == { k \in 1..Len(predictions) : predictions[k].top_3_emotions # << >> }
    IN  IF having = {} THEN {}
        ELSE LET first == CHOOSE k \in having : \A l \in having : k <= l
             IN  { predictions[first].top_3_emotions[m].name :
                       m \in 1..Len(predictions[first].top_3_emotions) }

\* C29: the step in which a successful analysis returns adds 1 to the count
\* of each top-3 name of the first prediction that has top-3 emotions and
\* changes no other count, so the sum of the counts grows by at most 3; the
\* step in which a failed analysis returns leaves emotion_counts unchanged.
C29_EmotionCounts ==
    [][\A r \in RequestIds :
          (requests[r].hume_results = None /\ requests'[r].hume_results # None) =>
              LET hume_results == requests'[r].hume_results[1]
                  before == audio_stats.emotion_counts
                  after == audio_stats'.emotion_counts
              IN  IF hume_results.success
                  THEN /\ \A name \in EmotionNames :
                             CountOf(after, name) = CountOf(before, name)
                                 + (IF name \in FirstTop3Names(hume_results.predictions)
                                    THEN 1 ELSE 0)
                       /\ DOMAIN after \subseteq EmotionNames
                       /\ SumOfCounts(after) <= SumOfCounts(before) + 3
                  ELSE after = before]_vars

\* after earlier requests: a result whose first prediction is silent and
\* whose next two name different emotions has been counted
C29_Witness ==
    /\ Len(requests) = 1
    /\ requests[1].hume_results # None
    /\ Len(requests[1].hume_results[1].predictions) = 3
    /\ requests[1].hume_results[1].predictions[1].top_3_emotions = << >>
    /\ Len(requests[1].hume_results[1].predictions[2].top_3_emotions) = 3
    /\ audio_stats.successful_analyses = 3
    /\ SumOfCounts(audio_stats.emotion_counts) = 6

(***************************************************************************)
(* recent_notifications                                                    *)
(***************************************************************************)
\* C25: recent_notifications never holds more than 10 entries; whenever it
\* changes, a send has just been answered with a 2xx status, its notice is
\* the first entry and the entries that were there follow in their order, the
\* oldest dropped past ten; a send that fails or finds no credentials leaves
\* the list as it was.
C25_RecentNotifications ==
    /\ [](Len(audio_stats.recent_notifications) <= MAX_NOTIFICATIONS)
    /\ [][LET old == audio_stats.recent_notifications
              new == audio_stats'.recent_notifications
          IN  /\ new # old =>
                    /\ send_result' # None
                    /\ send_result'[1].success
                    /\ [uid |-> send_result'[1].uid,
                        message |-> send_result'[1].message] \in posts
                    /\ new # << >>
                    /\ new[1].uid = send_result'[1].uid
                    /\ new[1].message = send_result'[1].message
                    /\ Tail(new) = SubSeq(old, 1, Len(new) - 1)
                    /\ Len(new) = Min(Len(old) + 1, MAX_NOTIFICATIONS)
              /\ (posts' # posts /\ send_result' # None /\ send_result' # send_result
                      /\ ~send_result'[1].success) => new = old
              /\ ~omi_configured => new = old]_vars

\* the list is full, the last send succeeded and notices of both users are
\* in it, the newer one being of another user than the one before
C25_Witness ==
    /\ Len(audio_stats.recent_notifications) = MAX_NOTIFICATIONS
    /\ send_result # None /\ send_result[1].success
    /\ audio_stats.recent_notifications[1].uid = send_result[1].uid
    /\ audio_stats.recent_notifications[1].uid # audio_stats.recent_notifications[2].uid

(***************************************************************************)
(* POST /emotion-config                                                    *)
(***************************************************************************)
\* the body is JSON and one of its two values is not acceptable
InvalidConfig(payload) ==
    /\ payload.json
    /\ \/ /\ payload.notification_enabled # None
          /\ payload.notification_enabled[1].type # "bool"
       \/ /\ payload.emotion_thresholds # None
          /\ \/ payload.emotion_thresholds[1].type # "dict"
             \/ \E name \in DOMAIN payload.emotion_thresholds[1].dict :
                   \/ payload.emotion_thresholds[1].dict[name] < 0
                   \/ payload.emotion_thresholds[1].dict[name] > 100

\* a request with an unacceptable value leaves EMOTION_CONFIG and the file
\* as they were
InvalidConfigChangesNothing ==
    [][\A payload \in Payloads, written \in BOOLEAN :
          (InvalidConfig(payload) /\ UpdateConfig(payload, written))
              => UNCHANGED << EMOTION_CONFIG, config_file >>]_vars

\* C26: a POST /emotion-config whose notification_enabled is not a boolean,
\* whose emotion_thresholds is not a dict or holds a value outside [0, 1] is
\* answered with status 400, and EMOTION_CONFIG and emotion_config.json are
\* left as they were.
C26_InvalidConfigRejected ==
    [][\A payload \in Payloads, written \in BOOLEAN :
          (InvalidConfig(payload) /\ UpdateConfig(payload, written))
              => /\ config_response'[1].status = 400
                 /\ UNCHANGED << EMOTION_CONFIG, config_file >>]_vars

(***************************************************************************)
(* POST /reset-stats                                                       *)
(***************************************************************************)
\* right after a reset the three counters are 0 and emotion_counts,
\* recent_emotions and recent_notifications are empty
ResetClearsStats ==
    [][resets' # resets =>
          /\ audio_stats'.total_requests = 0
          /\ audio_stats'.successful_analyses = 0
          /\ audio_stats'.failed_analyses = 0
          /\ audio_stats'.emotion_counts = << >>
          /\ audio_stats'.recent_emotions = << >>
          /\ audio_stats'.recent_notifications = << >>]_vars

\* C27: however /audio requests and /reset-stats calls interleave, a reset
\* while a request awaits its analysis included, the successful and the
\* failed analyses together never outnumber total_requests.
C27_CountersConsistent ==
    audio_stats.successful_analyses + audio_stats.failed_analyses
        <= audio_stats.total_requests

(***************************************************************************)
(* The stored emotion summary                                              *)
(***************************************************************************)
\* the last save was made for the user in both histories
SavedFor(uid) ==
    /\ stored # None /\ stored[1].uid = Some(uid)
    /\ stored_mixed # None /\ stored_mixed[1].uid = Some(uid)

\* C30: the emotion summary stored by save_emotion_memory for a user depends
\* on that user's own /audio requests only: in two histories that agree on
\* the requests of "u1" and differ in the requests of "u2", a save made for
\* "u1" at the same point stores the same memory, or none in both.
C30_SummaryOfOwnRequests ==
    SavedFor("u1") => stored[1].memory = stored_mixed[1].memory

====
